---- MODULE Spec2Model ----
(***************************************************************************)
(* Model of the placeholder engine of postergen (src/templates.py).        *)
(*                                                                         *)
(* A Python str is a sequence of one-character strings.  A Dict[str, str]  *)
(* is a sequence of entries with pairwise distinct keys, in insertion      *)
(* order, which is the order values.items() iterates in.  In the catalog   *)
(* a run of template text without brackets is kept as one element.         *)
(***************************************************************************)
EXTENDS Integers, Sequences, FiniteSets, TLC

VARIABLES
    template,   \* the template argument of the current call
    values,     \* the values argument of replace_placeholders (dict, in
                \* insertion order); empty until that call is made
    op,         \* which function returned last: "idle", "extract", "replace"
    out,        \* what it returned: a list of names, or a string
    \* the module and its concurrent callers
    TEMPLATES,  \* the module-level registry (dict, in insertion order)
    pc,         \* per caller: where its current call stands
    call,       \* per caller: the function called and its arguments
    local,      \* per call frame: the local variables of the running call
    ret,        \* per caller: what its last call returned
    \* one browser session of the app (src/app.py)
    session_state,  \* st.session_state: authenticated, password, api_key,
                    \* generated_images
    external,   \* the API key comes from the secrets or the environment
    login_shown,    \* the password input was rendered by the last run
    entered,    \* what the password input holds in the browser
    stage,      \* where the session stands: "waiting" for the user, "rerun"
                \* requested by a callback, "past_gate", "in_api"
    run,        \* the current script run: what it read from the widgets,
                \* what it sent, what came back and how it ended
    gen         \* how many responses have been processed

engineVars == <<template, values, op, out>>
catalogVars == <<TEMPLATES, pc, call, local, ret>>
appVars == <<session_state, external, login_shown, entered, stage, run, gen>>

vars == <<engineVars, catalogVars, appVars>>

----------------------------------------------------------------------------
(* Bounds of the input space *)

MaxPieces == 3      \* a template is at most this many fragments
MaxEntries == 2     \* a values dict has at most this many entries

\* the characters loose text is written with
Alphabet == {"[", "]", "a"}

\* the fragments templates are assembled from: every loose character, the
\* tokens of two names and a token behind a second "[", so that repeated,
\* adjacent and nested tokens fit in the bound
Fragments ==
    {<<c>> : c \in Alphabet}
        \cup {<<"[", "a", "]">>, <<"[", "b", "]">>, <<"[", "[", "a", "]">>}

RECURSIVE Flatten(_)
Flatten(ps) == IF ps = <<>> THEN <<>> ELSE Head(ps) \o Flatten(Tail(ps))

SeqsUpTo(S, n) == UNION {[1..k -> S] : k \in 0..n}

Templates == {Flatten(ps) : ps \in SeqsUpTo(Fragments, MaxPieces)}

\* dict keys and dict values the callers pass
Keys == {<<"a">>, <<"b">>, <<"[", "a">>}
Vals == {<<"a">>, <<"b">>, <<"[", "b", "]">>}

Entries == [placeholder : Keys, value : Vals]

DistinctKeys(vs) ==
    \A i, j \in 1..Len(vs) : i # j => vs[i].placeholder # vs[j].placeholder

Dicts == {vs \in SeqsUpTo(Entries, MaxEntries) : DistinctKeys(vs)}

----------------------------------------------------------------------------
(* String helpers: the Python str operations the code uses *)

\* s[i:j] with 1-based inclusive bounds
Slice(s, i, j) == IF j < i THEN <<>> ELSE SubSeq(s, i, j)

\* variant: the comparison stops one character short of the end of t
OccursAtShort(s, t, i) ==
    /\ i >= 1
    /\ i + Len(t) - 1 <= Len(s)
    /\ \A k \in 1..(Len(t) - 1) : s[i + k - 1] = t[k]

\* s.startswith(t, i-1): t occurs in s at (1-based) position i
OccursAt(s, t, i) ==
    /\ i >= 1
    /\ i + Len(t) - 1 <= Len(s)
    /\ \A k \in 1..Len(t) : s[i + k - 1] = t[k]

\* t in s
Contains(s, t) == \E i \in 1..(Len(s) + 1) : OccursAt(s, t, i)

\* variant: the bare name is searched for, without its brackets
TokenBare(placeholder) == placeholder

\* f'[{placeholder}]'
Token(placeholder) == <<"[">> \o placeholder \o <<"]">>

\* variant: the scan resumes one character too far behind a replaced
\* occurrence
RECURSIVE ReplaceFromSkip(_, _, _, _)
ReplaceFromSkip(s, old, new, i) ==
    IF i > Len(s) THEN <<>>
    ELSE IF OccursAt(s, old, i)
         THEN new \o ReplaceFromSkip(s, old, new, i + Len(old) + 1)
         ELSE <<s[i]>> \o ReplaceFromSkip(s, old, new, i + 1)

\* str.replace(old, new) for a non-empty old: the non-overlapping
\* occurrences of old, found left to right, each replaced by new
RECURSIVE ReplaceFrom(_, _, _, _)
ReplaceFrom(s, old, new, i) ==
    IF i > Len(s) THEN <<>>
    ELSE IF OccursAt(s, old, i)
         THEN new \o ReplaceFrom(s, old, new, i + Len(old))
         ELSE <<s[i]>> \o ReplaceFrom(s, old, new, i + 1)

StrReplace(s, old, new) == ReplaceFrom(s, old, new, 1)

----------------------------------------------------------------------------
(* extract_placeholders *)

\* variant: the class takes any character (r'\[(.+)\]'), so the match
\* runs to the last "]"
NextCloseLast(s, i) ==
    IF \E j \in i..Len(s) : s[j] = "]"
    THEN CHOOSE j \in i..Len(s) :
            /\ s[j] = "]"
            /\ \A k \in (j + 1)..Len(s) : s[k] # "]"
    ELSE 0

\* variant: the end of the string closes an open token as a "]" does
NextCloseOrEnd(s, i) ==
    IF \E j \in i..Len(s) : s[j] = "]"
    THEN CHOOSE j \in i..Len(s) :
            /\ s[j] = "]"
            /\ \A k \in i..(j - 1) : s[k] # "]"
    ELSE Len(s) + 1

\* the position of the first "]" at or after i, 0 when there is none:
\* where the greedy class [^\]]+ has to stop
NextClose(s, i) ==
    IF \E j \in i..Len(s) : s[j] = "]"
    THEN CHOOSE j \in i..Len(s) :
            /\ s[j] = "]"
            /\ \A k \in i..(j - 1) : s[k] # "]"
    ELSE 0

\* variant: the class may match no character at all (r'\[([^\]]*)\]')
RECURSIVE FindAllFromStar(_, _)
FindAllFromStar(s, i) ==
    IF i > Len(s) THEN <<>>
    ELSE IF s[i] = "[" /\ NextClose(s, i + 1) >= i + 1
         THEN <<Slice(s, i + 1, NextClose(s, i + 1) - 1)>>
              \o FindAllFromStar(s, NextClose(s, i + 1) + 1)
         ELSE FindAllFromStar(s, i + 1)

\* re.findall(r'\[([^\]]+)\]', s), scanning from position i: the groups of
\* the non-overlapping matches, left to right.  A match starts at a "[",
\* takes one or more characters other than "]" (a "[" among them is
\* allowed) and ends at the first "]" after them.
RECURSIVE FindAllFrom(_, _)
FindAllFrom(s, i) ==
    IF i > Len(s) THEN <<>>
    ELSE IF s[i] = "[" /\ NextClose(s, i + 1) > i + 1
         THEN <<Slice(s, i + 1, NextClose(s, i + 1) - 1)>>
              \o FindAllFrom(s, NextClose(s, i + 1) + 1)
         ELSE FindAllFrom(s, i + 1)

FindAll(s) == FindAllFrom(s, 1)

\* the loop over placeholders with the seen set
RECURSIVE UniqueLoop(_, _, _, _)
UniqueLoop(placeholders, k, seen, unique_placeholders) ==
    IF k > Len(placeholders) THEN unique_placeholders
    ELSE IF placeholders[k] \notin seen
         THEN UniqueLoop(placeholders, k + 1, seen \cup {placeholders[k]},
                         Append(unique_placeholders, placeholders[k]))
         ELSE UniqueLoop(placeholders, k + 1, seen, unique_placeholders)

\* variant: the list of matches is returned as found
extract_placeholders_all(t) == FindAll(t)

extract_placeholders(t) == UniqueLoop(FindAll(t), 1, {}, <<>>)

----------------------------------------------------------------------------
(* replace_placeholders *)

\* for placeholder, value in values.items(): result = result.replace(...)
RECURSIVE ReplaceLoop(_, _, _)
ReplaceLoop(result, vs, k) ==
    IF k > Len(vs) THEN result
    ELSE ReplaceLoop(StrReplace(result, Token(vs[k].placeholder), vs[k].value),
                     vs, k + 1)

replace_placeholders(t, vs) == ReplaceLoop(t, vs, 1)

----------------------------------------------------------------------------
(* The template catalog and the calls made on the module *)

NumCallers == 2     \* concurrent callers of the module

Callers == 1..NumCallers

\* the placeholders of the registered templates, in the order of their
\* first token; every body holds one token of each
PlaceholderNames ==
    << "Panchayath/Constituency Name", "Candidate Name", "Party Name Initials",
       "Symbol Name", "Campaign Tagline", "Full Party Name",
       "Symbol Description" >>

\* a registered body: its text, with the seven tokens in it
RECURSIVE BodyFrom(_, _)
BodyFrom(text, i) ==
    IF i > Len(PlaceholderNames) THEN <<>>
    ELSE <<"[", PlaceholderNames[i], "]", text>> \o BodyFrom(text, i + 1)

Body(text) == <<text>> \o BodyFrom(text, 1)

\* TEMPLATES = {...}
Catalog ==
    << [name |-> "Male Candidate - Regular Photo",
        body |-> Body("male regular text")],
       [name |-> "Female Candidate - Regular Photo",
        body |-> Body("female regular text")],
       [name |-> "Male Candidate - Caricature Style",
        body |-> Body("male caricature text")],
       [name |-> "Female Candidate - Caricature Style",
        body |-> Body("female caricature text")] >>

\* the names callers look up: the registered ones and an unknown one
LookupNames == {Catalog[i].name : i \in 1..Len(Catalog)} \cup {"nonexistent-template"}

\* the dicts callers substitute
CallerDicts ==
    { << [placeholder |-> <<"Panchayath/Constituency Name">>, value |-> <<"Muriyad">>],
         [placeholder |-> <<"Candidate Name">>, value |-> <<"Anu">>] >> }

\* the outcome of a call: a value returned, or an exception raised; shared
\* tells whether the value is an object the module itself keeps using
Returned(v) == [raised |-> FALSE, shared |-> FALSE, val |-> v]
Raised(e) == [raised |-> TRUE, shared |-> FALSE, val |-> <<e>>]

\* variant: the registry's own list of keys is handed out
SameList(q) == [raised |-> FALSE, shared |-> TRUE, val |-> q]

\* list(...): a new list with the same elements
NewList(q) == Returned(q)

\* variant: TEMPLATES[name], which raises for a missing key
DictSubscript(d, key, default) ==
    IF \E i \in 1..Len(d) : d[i].name = key
    THEN Returned(d[CHOOSE i \in 1..Len(d) : d[i].name = key].body)
    ELSE Raised("KeyError")

\* dict.get(key, default)
DictGet(d, key, default) ==
    IF \E i \in 1..Len(d) : d[i].name = key
    THEN Returned(d[CHOOSE i \in 1..Len(d) : d[i].name = key].body)
    ELSE Returned(default)

\* list(TEMPLATES.keys())
get_template_names(d) == NewList([i \in 1..Len(d) |-> d[i].name])

\* TEMPLATES.get(name, "")
get_template(d, name) == DictGet(d, name, <<>>)

\* variant: the local variables are module-level, one set for all calls
FrameShared(c) == 1

\* the frame holding the local variables of caller c's running call: its own
Frame(c) == c

NoCall == [fn |-> "none", name |-> "", template |-> <<>>, values |-> <<>>]
NoLocals == [placeholders |-> <<>>, result |-> <<>>, k |-> 0]

CatalogAtRest ==
    /\ TEMPLATES = Catalog
    /\ pc = [c \in Callers |-> "idle"]
    /\ call = [c \in Callers |-> NoCall]
    /\ local = [c \in Callers |-> NoLocals]
    /\ ret = [c \in Callers |-> Returned(<<>>)]

----------------------------------------------------------------------------
(* The app: session state and what a script run reads *)

MaxCleared == 1         \* campaign fields the user leaves empty
MaxParts == 2           \* parts of a response
MaxGenerations == 2     \* responses processed in a session

\* DEFAULT_PASSWORD, and what users type
DEFAULT_PASSWORD == "imagegen2024"
Passwords == {DEFAULT_PASSWORD, "letmein"}

\* "password" not in st.session_state
NoKey == "(no key)"

\* the API keys a session can hold: none, or one
ApiKeys == {"", "key"}

\* reference images: files with an image mode
UploadChoices ==
    { <<>>,
      <<[id |-> "upload 1", mode |-> "RGBA"]>>,
      <<[id |-> "upload 1", mode |-> "RGBA"], [id |-> "upload 2", mode |-> "RGB"]>> }
DefaultChoices == { <<>>, <<[id |-> "default 1", mode |-> "RGB"]>> }

\* the parts a response is made of: text, an image that decodes, a part
\* as_image() gives nothing for, an image without image_bytes, and bytes
\* Image.open rejects
PartKinds == {"text", "image", "no_image", "no_bytes", "bad_bytes"}
Responses == SeqsUpTo(PartKinds, MaxParts)

\* the sets of fields (by position) a user clears
ClearedChoices ==
    {cl \in SUBSET (1..Len(PlaceholderNames)) : Cardinality(cl) <= MaxCleared}

NoRun ==
    [outcome |-> "none", generate_button |-> FALSE, images_to_use |-> <<>>,
     placeholder_values |-> <<>>, final_prompt_edited |-> <<>>,
     contents |-> <<>>, response |-> <<>>]

AppAtRest ==
    /\ external = FALSE
    /\ session_state = [authenticated |-> FALSE, password |-> NoKey,
                        api_key |-> "", generated_images |-> <<>>]
    /\ login_shown = FALSE
    /\ entered = ""
    /\ stage = "waiting"
    /\ run = NoRun
    /\ gen = 0

----------------------------------------------------------------------------
(* The state machine: a caller holds a template and calls one of the two   *)
(* functions on it; replace_placeholders is called with a dict of the      *)
(* caller's choice.  Each call is independent of every other.              *)

Init ==
    /\ template \in Templates
    /\ values = <<>>
    /\ op = "idle"
    /\ out = <<>>
    /\ CatalogAtRest
    /\ AppAtRest

ExtractPlaceholders ==
    /\ op = "idle"
    /\ op' = "extract"
    /\ out' = extract_placeholders(template)
    /\ UNCHANGED <<template, values, catalogVars, appVars>>

ReplacePlaceholders ==
    /\ op = "idle"
    /\ \E vs \in Dicts :
          /\ values' = vs
          /\ out' = replace_placeholders(template, vs)
    /\ op' = "replace"
    /\ UNCHANGED <<template, catalogVars, appVars>>

Next == ExtractPlaceholders \/ ReplacePlaceholders

Spec == Init /\ [][Next]_vars

----------------------------------------------------------------------------
(* The module under concurrent callers.  A call is entered, runs its       *)
(* statements one at a time and returns; the statements of different       *)
(* callers interleave freely.  While a call runs the caller holds no       *)
(* result: ret[c] is cleared on entry and set on return.                   *)

EngineAtRest ==
    /\ template = <<>>
    /\ values = <<>>
    /\ op = "idle"
    /\ out = <<>>

InitCatalog == CatalogAtRest /\ EngineAtRest /\ AppAtRest

Between(c) == pc[c] \in {"idle", "returned", "mutated"}

CallGetTemplateNames(c) ==
    /\ Between(c)
    /\ pc' = [pc EXCEPT ![c] = "called"]
    /\ call' = [call EXCEPT ![c] = [NoCall EXCEPT !.fn = "get_template_names"]]
    /\ ret' = [ret EXCEPT ![c] = Returned(<<>>)]
    /\ UNCHANGED <<TEMPLATES, local, engineVars, appVars>>

ReturnGetTemplateNames(c) ==
    /\ pc[c] = "called" /\ call[c].fn = "get_template_names"
    /\ ret' = [ret EXCEPT ![c] = get_template_names(TEMPLATES)]
    /\ pc' = [pc EXCEPT ![c] = "returned"]
    /\ UNCHANGED <<TEMPLATES, call, local, engineVars, appVars>>

\* the caller removes the first name from the list it was given
MutateReturnedList(c) ==
    /\ pc[c] = "returned" /\ call[c].fn = "get_template_names"
    /\ ret[c].val # <<>>
    /\ ret' = [ret EXCEPT ![c].val = Tail(@)]
    /\ TEMPLATES' = IF ret[c].shared THEN Tail(TEMPLATES) ELSE TEMPLATES
    /\ pc' = [pc EXCEPT ![c] = "mutated"]
    /\ UNCHANGED <<call, local, engineVars, appVars>>

CallGetTemplate(c) ==
    /\ Between(c)
    /\ \E n \in LookupNames :
          call' = [call EXCEPT ![c] = [NoCall EXCEPT !.fn = "get_template", !.name = n]]
    /\ pc' = [pc EXCEPT ![c] = "called"]
    /\ ret' = [ret EXCEPT ![c] = Returned(<<>>)]
    /\ UNCHANGED <<TEMPLATES, local, engineVars, appVars>>

ReturnGetTemplate(c) ==
    /\ pc[c] = "called" /\ call[c].fn = "get_template"
    /\ ret' = [ret EXCEPT ![c] = get_template(TEMPLATES, call[c].name)]
    /\ pc' = [pc EXCEPT ![c] = "returned"]
    /\ UNCHANGED <<TEMPLATES, call, local, engineVars, appVars>>

\* extract_placeholders is called on the template get_template returned
CallExtract(c) ==
    /\ pc[c] = "returned" /\ call[c].fn = "get_template" /\ ~ret[c].raised
    /\ call' = [call EXCEPT ![c] = [@ EXCEPT !.fn = "extract_placeholders",
                                            !.template = ret[c].val]]
    /\ pc' = [pc EXCEPT ![c] = "called"]
    /\ ret' = [ret EXCEPT ![c] = Returned(<<>>)]
    /\ UNCHANGED <<TEMPLATES, local, engineVars, appVars>>

\* placeholders = re.findall(pattern, template)
ExtractFindAll(c) ==
    /\ pc[c] = "called" /\ call[c].fn = "extract_placeholders"
    /\ local' = [local EXCEPT ![Frame(c)].placeholders = FindAll(call[c].template)]
    /\ pc' = [pc EXCEPT ![c] = "scanned"]
    /\ UNCHANGED <<TEMPLATES, call, ret, engineVars, appVars>>

\* the loop over placeholders, and return unique_placeholders
ExtractReturn(c) ==
    /\ pc[c] = "scanned"
    /\ ret' = [ret EXCEPT ![c] =
                 Returned(UniqueLoop(local[Frame(c)].placeholders, 1, {}, <<>>))]
    /\ local' = [local EXCEPT ![Frame(c)] = NoLocals]
    /\ pc' = [pc EXCEPT ![c] = "returned"]
    /\ UNCHANGED <<TEMPLATES, call, engineVars, appVars>>

\* replace_placeholders is called on the template that was just scanned
CallReplace(c) ==
    /\ pc[c] = "returned" /\ call[c].fn = "extract_placeholders"
    /\ \E vs \in CallerDicts :
          call' = [call EXCEPT ![c] = [@ EXCEPT !.fn = "replace_placeholders",
                                               !.values = vs]]
    /\ pc' = [pc EXCEPT ![c] = "called"]
    /\ ret' = [ret EXCEPT ![c] = Returned(<<>>)]
    /\ UNCHANGED <<TEMPLATES, local, engineVars, appVars>>

\* result = template
ReplaceBegin(c) ==
    /\ pc[c] = "called" /\ call[c].fn = "replace_placeholders"
    /\ local' = [local EXCEPT ![Frame(c)].result = call[c].template,
                              ![Frame(c)].k = 1]
    /\ pc' = [pc EXCEPT ![c] = "looping"]
    /\ UNCHANGED <<TEMPLATES, call, ret, engineVars, appVars>>

\* one turn of the loop: result = result.replace(f'[{placeholder}]', value)
ReplaceStep(c) ==
    /\ pc[c] = "looping"
    /\ local[Frame(c)].k \in 1..Len(call[c].values)
    /\ LET k == local[Frame(c)].k
           e == call[c].values[k]
       IN local' = [local EXCEPT
                      ![Frame(c)].result = StrReplace(@, Token(e.placeholder), e.value),
                      ![Frame(c)].k = k + 1]
    /\ UNCHANGED <<TEMPLATES, pc, call, ret, engineVars, appVars>>

\* return result
ReplaceReturn(c) ==
    /\ pc[c] = "looping"
    /\ local[Frame(c)].k \notin 1..Len(call[c].values)
    /\ ret' = [ret EXCEPT ![c] = Returned(local[Frame(c)].result)]
    /\ local' = [local EXCEPT ![Frame(c)] = NoLocals]
    /\ pc' = [pc EXCEPT ![c] = "returned"]
    /\ UNCHANGED <<TEMPLATES, call, engineVars, appVars>>

NextCatalog ==
    \E c \in Callers :
        \/ CallGetTemplateNames(c)
        \/ ReturnGetTemplateNames(c)
        \/ MutateReturnedList(c)
        \/ CallGetTemplate(c)
        \/ ReturnGetTemplate(c)
        \/ CallExtract(c)
        \/ ExtractFindAll(c)
        \/ ExtractReturn(c)
        \/ CallReplace(c)
        \/ ReplaceBegin(c)
        \/ ReplaceStep(c)
        \/ ReplaceReturn(c)

SpecCatalog == InitCatalog /\ [][NextCatalog]_vars

----------------------------------------------------------------------------
(* The app.  Streamlit runs the script from the top after every user       *)
(* interaction; a widget's on_change callback runs first, then the script. *)
(* A run executes alone in its session, so it is one step up to each point *)
(* where it waits for the outside: the gate, and the call of the API.      *)

\* variant: any non-empty entry is accepted
PasswordNonEmpty(p) == p # ""

\* st.session_state["password"] == DEFAULT_PASSWORD
PasswordMatches(p) == p = DEFAULT_PASSWORD

\* variant: the check of the placeholder values is left out
AllTruthySkipped(vs) == TRUE

\* all(placeholder_values.values())
AllTruthy(vs) == \A i \in 1..Len(vs) : vs[i].value # <<>>

\* the validation chain of the generate handler: the first failing check,
\* or "ok"
Validate(api_key, images_to_use, placeholder_values) ==
    IF api_key = "" THEN "no_api_key"
    ELSE IF images_to_use = <<>> THEN "no_images"
    ELSE IF ~AllTruthy(placeholder_values) THEN "empty_placeholder"
    ELSE "ok"

\* the loop over placeholders that fills placeholder_values: one text input
\* per name, in order; cleared fields are empty
PlaceholderValues(placeholders, cleared) ==
    [i \in 1..Len(placeholders) |->
        [placeholder |-> placeholders[i],
         value |-> IF i \in cleared THEN <<>> ELSE <<"campaign text">>]]

\* image.convert('RGB') when image.mode != 'RGB'
ConvertRGB(image) == IF image.mode # "RGB" THEN [image EXCEPT !.mode = "RGB"] ELSE image

\* content = [final_prompt], then content.append(image) per reference image
Contents(final_prompt, images_to_use) ==
    <<[kind |-> "text", image |-> [id |-> "", mode |-> ""], text |-> final_prompt]>>
      \o [i \in 1..Len(images_to_use) |->
            [kind |-> "image", image |-> ConvertRGB(images_to_use[i]), text |-> <<>>]]

\* variant: the stored list is not emptied before the parts are processed
KeepList(previous) == previous

\* st.session_state.generated_images = []
StartList(previous) == <<>>

\* the loop over response.parts: a part that decodes is appended, every
\* other part leaves the list as it is
RECURSIVE ProcessParts(_, _, _, _)
ProcessParts(parts, idx, g, images) ==
    IF idx > Len(parts) THEN images
    ELSE IF parts[idx] = "image"
         THEN ProcessParts(parts, idx + 1, g, Append(images, [gen |-> g, part |-> idx]))
         ELSE ProcessParts(parts, idx + 1, g, images)

InitApp ==
    /\ external \in BOOLEAN
    /\ session_state = [authenticated |-> FALSE, password |-> NoKey,
                        api_key |-> IF external THEN "key" ELSE "",
                        generated_images |-> <<>>]
    /\ login_shown = FALSE
    /\ entered = ""
    /\ stage = "waiting"
    /\ run = NoRun
    /\ gen = 0
    /\ CatalogAtRest
    /\ EngineAtRest

\* password_entered, called when the user commits the password input
PasswordEntered(p) ==
    /\ stage = "waiting"
    /\ login_shown
    /\ session_state' =
          IF PasswordMatches(p)
          THEN [session_state EXCEPT !.authenticated = TRUE, !.password = NoKey]
          ELSE [session_state EXCEPT !.authenticated = FALSE, !.password = p]
    /\ entered' = p
    /\ stage' = "rerun"
    /\ UNCHANGED <<external, login_shown, run, gen, engineVars, catalogVars>>

\* the script from its top through check_password: the login form and
\* st.stop(), or on to the main page
RunToGate ==
    /\ stage \in {"waiting", "rerun"}
    /\ IF ~session_state.authenticated
       THEN /\ login_shown' = TRUE
            /\ stage' = "waiting"
            /\ run' = [NoRun EXCEPT !.outcome = "login"]
       ELSE /\ login_shown' = FALSE
            /\ stage' = "past_gate"
            /\ run' = NoRun
    /\ UNCHANGED <<session_state, external, entered, gen, engineVars, catalogVars>>

\* the sidebar input: st.session_state.api_key = api_key, unless the key
\* is configured outside
ApiKeyAfterSidebar(typed) == IF external THEN session_state.api_key ELSE typed

\* the main page of a run in which the button was not pressed
RunWithoutGenerate ==
    /\ stage = "past_gate"
    /\ \E typed \in ApiKeys :
          session_state' = [session_state EXCEPT !.api_key = ApiKeyAfterSidebar(typed)]
    /\ run' = [NoRun EXCEPT !.outcome = "shown"]
    /\ stage' = "waiting"
    /\ UNCHANGED <<external, login_shown, entered, gen, engineVars, catalogVars>>

\* the main page of a run in which the button was pressed, up to the call
\* of generate_content or to the message that ends the handler
RunGenerate ==
    /\ stage = "past_gate"
    /\ gen < MaxGenerations
    /\ \E selected \in 1..Len(TEMPLATES) :
          LET selected_template == get_template_names(TEMPLATES).val[selected]
              tmpl == get_template(TEMPLATES, selected_template).val
              placeholders == extract_placeholders(tmpl)
          IN \E typed \in ApiKeys, uploaded_files \in UploadChoices,
                default_images \in DefaultChoices, cleared \in ClearedChoices,
                edited \in BOOLEAN, opens \in BOOLEAN :
                LET images_to_use ==
                        IF uploaded_files # <<>> THEN uploaded_files ELSE default_images
                    placeholder_values == PlaceholderValues(placeholders, cleared)
                    preview_prompt == replace_placeholders(tmpl, placeholder_values)
                    final_prompt_edited ==
                        IF edited THEN <<"hand-edited prompt">> ELSE preview_prompt
                    api_key == ApiKeyAfterSidebar(typed)
                    verdict == Validate(api_key, images_to_use, placeholder_values)
                IN /\ session_state' = [session_state EXCEPT !.api_key = api_key]
                   /\ IF verdict # "ok"
                      THEN /\ run' = [NoRun EXCEPT !.outcome = verdict,
                                                   !.generate_button = TRUE]
                           /\ stage' = "waiting"
                      ELSE IF ~opens
                      THEN \* Image.open raises: the except branch
                           /\ run' = [NoRun EXCEPT !.outcome = "error",
                                                   !.generate_button = TRUE]
                           /\ stage' = "waiting"
                      ELSE /\ run' = [NoRun EXCEPT
                                        !.outcome = "calling",
                                        !.generate_button = TRUE,
                                        !.images_to_use = images_to_use,
                                        !.placeholder_values = placeholder_values,
                                        !.final_prompt_edited = final_prompt_edited,
                                        !.contents = Contents(final_prompt_edited, images_to_use)]
                           /\ stage' = "in_api"
    /\ UNCHANGED <<external, login_shown, entered, gen, engineVars, catalogVars>>

\* generate_content returns a response: its parts are processed
ApiReturns ==
    /\ stage = "in_api"
    /\ \E response \in Responses :
          /\ session_state' =
                [session_state EXCEPT !.generated_images =
                    ProcessParts(response, 1, gen + 1, StartList(@))]
          /\ run' = [NoRun EXCEPT !.outcome = "processed",
                                  !.generate_button = TRUE,
                                  !.response = response]
    /\ gen' = gen + 1
    /\ stage' = "waiting"
    /\ UNCHANGED <<external, login_shown, entered, engineVars, catalogVars>>

\* generate_content raises: the except branch
ApiRaises ==
    /\ stage = "in_api"
    /\ run' = [NoRun EXCEPT !.outcome = "error", !.generate_button = TRUE]
    /\ stage' = "waiting"
    /\ UNCHANGED <<session_state, external, login_shown, entered, gen, engineVars, catalogVars>>

NextApp ==
    \/ \E p \in Passwords : PasswordEntered(p)
    \/ RunToGate
    \/ RunWithoutGenerate
    \/ RunGenerate
    \/ ApiReturns
    \/ ApiRaises

SpecApp == InitApp /\ [][NextApp]_vars

----------------------------------------------------------------------------
(* Vocabulary of the properties, stated without the operators above *)

\* t is a substring of s
IsSubstr(s, t) ==
    \E i \in 0..(Len(s) - Len(t)) : \A k \in 1..Len(t) : s[i + k] = t[k]

\* the number of positions of s at which t occurs
Occurrences(s, t) ==
    Cardinality({i \in 0..(Len(s) - Len(t)) : \A k \in 1..Len(t) : s[i + k] = t[k]})

\* the bracket token of a name
Bracketed(n) == <<"[">> \o n \o <<"]">>

HasOpen(s) == \E i \in 1..Len(s) : s[i] = "["
HasClose(s) == \E i \in 1..Len(s) : s[i] = "]"
BracketFree(s) == ~HasOpen(s) /\ ~HasClose(s)

Range(q) == {q[i] : i \in 1..Len(q)}
KeysOf(vs) == {vs[i].placeholder : i \in 1..Len(vs)}

\* the dict without its k-th entry
WithoutEntry(vs, k) == [i \in 1..(Len(vs) - 1) |-> IF i < k THEN vs[i] ELSE vs[i + 1]]

\* every order the entries of a dict can be processed in
Orderings(vs) ==
    {[i \in 1..Len(vs) |-> vs[p[i]]] :
        p \in {q \in [1..Len(vs) -> 1..Len(vs)] :
                 \A i, j \in 1..Len(vs) : i # j => q[i] # q[j]}}

\* one entry per extracted name, values non-empty, distinct and bracket-free
CompleteMapping(vs, t) ==
    /\ KeysOf(vs) = Range(extract_placeholders(t))
    /\ \A i \in 1..Len(vs) : vs[i].value # <<>> /\ BracketFree(vs[i].value)
    /\ \A i, j \in 1..Len(vs) : i # j => vs[i].value # vs[j].value

\* one simultaneous pass over the original string: at each position the
\* token of a key (the first such entry) is replaced by its value and
\* skipped, any other character is copied
RECURSIVE SinglePassFrom(_, _, _)
SinglePassFrom(s, vs, i) ==
    IF i > Len(s) THEN <<>>
    ELSE LET hits == {k \in 1..Len(vs) :
                        /\ i + Len(vs[k].placeholder) + 1 <= Len(s)
                        /\ SubSeq(s, i, i + Len(vs[k].placeholder) + 1)
                             = Bracketed(vs[k].placeholder)}
         IN IF hits # {}
            THEN LET k == CHOOSE h \in hits : \A g \in hits : h <= g
                 IN vs[k].value
                      \o SinglePassFrom(s, vs, i + Len(vs[k].placeholder) + 2)
            ELSE <<s[i]>> \o SinglePassFrom(s, vs, i + 1)

SinglePass(s, vs) == SinglePassFrom(s, vs, 1)

----------------------------------------------------------------------------
(* C1: after a complete mapping (one entry per extracted name, values      *)
(* non-empty, pairwise distinct, bracket-free) has been substituted, no    *)
(* placeholder is left: extract_placeholders of the output is empty.       *)
C1_NoLeftoverPlaceholders ==
    (op = "replace" /\ CompleteMapping(values, template))
        => extract_placeholders(out) = <<>>

(* C2: the output of replace_placeholders is the result of one             *)
(* simultaneous pass over the original template; inserted values are not   *)
(* matched by another entry of the same call.                              *)
C2_OneSimultaneousPass ==
    op = "replace" => out = SinglePass(template, values)

(* C3: the output of replace_placeholders is the same for every order in   *)
(* which the entries of the mapping are processed.                         *)
C3_OrderIndependent ==
    op = "replace"
        => \A vs \in Orderings(values) : replace_placeholders(template, vs) = out

(* C4: an entry whose token does not occur in the template is a no-op:     *)
(* the output equals the output of the call without that entry.            *)
C4_UnusedEntryIsNoOp ==
    op = "replace"
        => \A k \in 1..Len(values) :
              ~IsSubstr(template, Bracketed(values[k].placeholder))
                  => replace_placeholders(template, WithoutEntry(values, k)) = out

----------------------------------------------------------------------------
(* Tokens of a template, located without the scan of FindAllFrom *)

\* the positions at which a token can end when it starts at i: the first
\* "]" after i, provided at least one character lies in between
TokenEnds(s, i) ==
    {j \in (i + 2)..Len(s) : s[j] = "]" /\ \A k \in (i + 1)..(j - 1) : s[k] # "]"}

\* the start positions of the tokens of s, left to right from i on
RECURSIVE TokenStartsFrom(_, _)
TokenStartsFrom(s, i) ==
    IF i > Len(s) THEN {}
    ELSE IF s[i] = "[" /\ TokenEnds(s, i) # {}
         THEN {i} \cup TokenStartsFrom(s, (CHOOSE j \in TokenEnds(s, i) : TRUE) + 1)
         ELSE TokenStartsFrom(s, i + 1)

TokenStarts(s) == TokenStartsFrom(s, 1)

\* the name of the token that starts at i
NameAt(s, i) == SubSeq(s, i + 1, (CHOOSE j \in TokenEnds(s, i) : TRUE) - 1)

\* where the first token named n starts
FirstStart(s, n) ==
    CHOOSE i \in TokenStarts(s) :
        /\ NameAt(s, i) = n
        /\ \A j \in TokenStarts(s) : NameAt(s, j) = n => i <= j

\* how many tokens of s are named n
TokenCount(s, n) == Cardinality({i \in TokenStarts(s) : NameAt(s, i) = n})

\* no "[" of s is followed, anywhere later, by a "]"
NoPair(s) == ~\E i, j \in 1..Len(s) : i < j /\ s[i] = "[" /\ s[j] = "]"

MaxDangling == 2    \* characters after the "[" of a dangling fragment

\* "[" followed by text without "]"
Danglings == {<<"[">> \o w : w \in SeqsUpTo(Alphabet \ {"]"}, MaxDangling)}

\* s ends in a dangling fragment
EndsDangling(s) ==
    \E i \in 1..Len(s) : s[i] = "[" /\ \A j \in (i + 1)..Len(s) : s[j] # "]"

----------------------------------------------------------------------------
(* C5, as stated: every token of the template whose name is not a key of   *)
(* values occurs in the output as often as it is a token of the template.  *)
C5_UnkeyedTokensIntact ==
    op = "replace"
        => \A n \in Range(extract_placeholders(template)) \ KeysOf(values) :
              Occurrences(out, Bracketed(n)) >= TokenCount(template, n)

(* C5, amended: when no key of values contains a bracket, every token of   *)
(* the template whose name is not a key and contains no "[" occurs in the  *)
(* output as often as it is a token of the template.                       *)
C5_PlainUnkeyedTokensIntact ==
    (op = "replace" /\ \A k \in KeysOf(values) : BracketFree(k))
        => \A n \in Range(extract_placeholders(template)) \ KeysOf(values) :
              ~HasOpen(n)
                  => Occurrences(out, Bracketed(n)) >= TokenCount(template, n)

C5_Witness ==
    /\ op = "replace"
    /\ \A k \in KeysOf(values) : BracketFree(k)
    /\ \E k \in KeysOf(values) : IsSubstr(template, Bracketed(k))
    /\ \E n \in Range(extract_placeholders(template)) \ KeysOf(values) : ~HasOpen(n)
    /\ out # template

(* C6, as stated: substituting the same mapping into the output again      *)
(* changes nothing.                                                        *)
C6_Idempotent ==
    op = "replace" => replace_placeholders(out, values) = out

(* C6, amended: when the output contains the token of no key of values,    *)
(* substituting the same mapping into it again changes nothing.            *)
C6_IdempotentWhenNoTokenRemains ==
    (op = "replace" /\ \A k \in KeysOf(values) : ~IsSubstr(out, Bracketed(k)))
        => replace_placeholders(out, values) = out

C6_Witness ==
    /\ op = "replace"
    /\ out # template
    /\ out # <<>>
    /\ Len(values) = MaxEntries
    /\ \A k \in KeysOf(values) : ~IsSubstr(out, Bracketed(k))

(* C7: extract_placeholders returns every token name exactly once, in the  *)
(* order in which the names' first tokens start in the template.           *)
C7_UniqueInFirstOccurrenceOrder ==
    op = "extract"
        => /\ \A i, j \in 1..Len(out) : i # j => out[i] # out[j]
           /\ Range(out) = {NameAt(template, p) : p \in TokenStarts(template)}
           /\ \A i, j \in 1..Len(out) :
                 i < j <=> FirstStart(template, out[i]) < FirstStart(template, out[j])

C7_Witness ==
    /\ op = "extract"
    /\ Len(out) >= 2
    /\ TokenCount(template, out[1]) >= 2

(* C8, as stated: every extracted name contains neither "[" nor "]" and    *)
(* stands in the template between a "[" and the first "]" after it.        *)
C8_NamesBracketFree ==
    op = "extract"
        => \A n \in Range(out) :
              BracketFree(n) /\ IsSubstr(template, Bracketed(n))

(* C8, amended: every extracted name contains no "]" (a "[" may occur in   *)
(* it) and stands in the template between a "[" and the first "]" after    *)
(* that "[".                                                               *)
C8_NamesEndAtFirstClose ==
    op = "extract"
        => \A n \in Range(out) :
              ~HasClose(n) /\ IsSubstr(template, Bracketed(n))

C8_Witness ==
    /\ op = "extract"
    /\ \E n \in Range(out) : HasOpen(n) /\ ~HasClose(n)

(* C9: a template in which no "[" is followed later by a "]" has no        *)
(* placeholders, and appending "[" plus text without "]" to a template     *)
(* does not change its placeholders.                                       *)
C9_DanglingOpenIgnored ==
    op = "extract"
        => /\ NoPair(template) => out = <<>>
           /\ \A d \in Danglings : extract_placeholders(template \o d) = out

C9_Witness ==
    /\ op = "extract"
    /\ out # <<>>
    /\ EndsDangling(template)

(* C10: with an empty mapping, and whenever the token of no key occurs in  *)
(* the template, replace_placeholders returns the template unchanged.      *)
C10_IdentityWithoutMatchingKey ==
    op = "replace"
        => /\ values = <<>> => out = template
           /\ (\A k \in KeysOf(values) : ~IsSubstr(template, Bracketed(k)))
                 => out = template

C10_Witness ==
    /\ op = "replace"
    /\ values # <<>>
    /\ TokenStarts(template) # {}
    /\ \A k \in KeysOf(values) : ~IsSubstr(template, Bracketed(k))
    /\ out = template

(* C14: every extracted name is non-empty and its token "[name]" is a      *)
(* substring of the template; an empty pair "[]" yields no placeholder and *)
(* does not start one: putting "[]" in front of a template leaves its      *)
(* placeholders as they are.                                               *)
C14_NamesNonEmptyAndLiteral ==
    op = "extract"
        => /\ \A n \in Range(out) : n # <<>> /\ IsSubstr(template, Bracketed(n))
           /\ extract_placeholders(<<"[", "]">> \o template) = out

C14_Witness ==
    /\ op = "extract"
    /\ IsSubstr(template, <<"[", "]">>)
    /\ out # <<>>

----------------------------------------------------------------------------
(* The catalog claims *)

\* the registered names as the source lists them
RegisteredNames ==
    << "Male Candidate - Regular Photo", "Female Candidate - Regular Photo",
       "Male Candidate - Caricature Style", "Female Candidate - Caricature Style" >>

IsRegistered(n) == \E i \in 1..Len(RegisteredNames) : RegisteredNames[i] = n

\* the body registered under n
BodyOf(n) == Catalog[CHOOSE i \in 1..Len(Catalog) : Catalog[i].name = n].body

HasReturnedFrom(c, fn) == pc[c] = "returned" /\ call[c].fn = fn

\* what a call returns when it is the only one ever made
AloneResult(cl) ==
    CASE cl.fn = "get_template_names" -> RegisteredNames
      [] cl.fn = "get_template" ->
            IF IsRegistered(cl.name) THEN BodyOf(cl.name) ELSE <<>>
      [] cl.fn = "extract_placeholders" -> extract_placeholders(cl.template)
      [] cl.fn = "replace_placeholders" ->
            replace_placeholders(cl.template, cl.values)

(* C11: get_template never raises; it returns the registered body for a    *)
(* registered name and the empty string for any other name, and            *)
(* extract_placeholders on that empty string returns the empty list.       *)
C11_LenientLookup ==
    \A c \in Callers :
        /\ HasReturnedFrom(c, "get_template")
              => /\ ~ret[c].raised
                 /\ ret[c].val = IF IsRegistered(call[c].name)
                                 THEN BodyOf(call[c].name) ELSE <<>>
        /\ (HasReturnedFrom(c, "extract_placeholders") /\ ~IsRegistered(call[c].name))
              => ret[c].val = <<>>

C11_Witness ==
    \E c \in Callers :
        /\ HasReturnedFrom(c, "extract_placeholders")
        /\ call[c].name = "nonexistent-template"
        /\ call[c].template = <<>>

(* C12: get_template_names returns the registered names, each once, in the *)
(* order of the registry, whatever calls were made and whatever callers    *)
(* did to the lists they were given before.                                *)
C12_StableNames ==
    \A c \in Callers :
        HasReturnedFrom(c, "get_template_names")
            => /\ ret[c].val = RegisteredNames
               /\ ret[c].val # <<>>
               /\ \A i, j \in 1..Len(ret[c].val) : i # j => ret[c].val[i] # ret[c].val[j]

C12_Witness ==
    \E c, d \in Callers :
        /\ HasReturnedFrom(c, "get_template_names")
        /\ pc[d] = "mutated"
        /\ ret[d].val # RegisteredNames

(* C13: under every interleaving of the callers' calls the catalog stays   *)
(* as it was registered and each call returns what it returns when it      *)
(* runs alone on the same arguments.                                       *)
C13_CallsIndependent ==
    /\ TEMPLATES = Catalog
    /\ \A c \in Callers :
          pc[c] = "returned" => ret[c] = Returned(AloneResult(call[c]))

C13_Witness ==
    \E c, d \in Callers :
        /\ HasReturnedFrom(c, "replace_placeholders")
        /\ ret[c].val # call[c].template
        /\ pc[d] = "looping" /\ local[d].k = 2
        /\ call[d].template # call[c].template

----------------------------------------------------------------------------
(* Claims about the app *)

\* C16: a run is past the authentication gate only while authenticated is
\* True; authenticated turns from False to True only in password_entered,
\* called with the password input holding DEFAULT_PASSWORD, and that step
\* deletes the password from the session state; once True, authenticated
\* is never set back to False.
C16_AuthenticationGate ==
    /\ [](stage \in {"past_gate", "in_api"} => session_state.authenticated)
    /\ [][(~session_state.authenticated /\ session_state'.authenticated)
            => /\ stage = "waiting" /\ login_shown /\ stage' = "rerun"
               /\ entered' = DEFAULT_PASSWORD
               /\ session_state'.password = NoKey]_vars
    /\ [][session_state.authenticated => session_state'.authenticated]_vars

\* the right password was entered and deleted from the session state, and
\* a run went past the gate
C16_Witness ==
    /\ stage = "past_gate"
    /\ session_state.authenticated
    /\ entered = DEFAULT_PASSWORD
    /\ session_state.password = NoKey

\* C15: generate_content is being called only in a run in which the button
\* was pressed, with a non-empty API key in the session, at least one
\* reference image (uploaded or default) and no empty placeholder value;
\* what is sent is the edited final prompt, once and first, followed by the
\* reference images in their order.
C15_CallGuardedAndContentsOrdered ==
    stage = "in_api" =>
        /\ run.generate_button
        /\ session_state.api_key # ""
        /\ run.images_to_use # <<>>
        /\ \A i \in DOMAIN run.placeholder_values :
              run.placeholder_values[i].value # <<>>
        /\ Len(run.contents) = 1 + Len(run.images_to_use)
        /\ run.contents[1].kind = "text"
        /\ run.contents[1].text = run.final_prompt_edited
        /\ \A i \in DOMAIN run.images_to_use :
              /\ run.contents[i + 1].kind = "image"
              /\ run.contents[i + 1].image.id = run.images_to_use[i].id

\* a call with two uploaded images, the first of them converted to RGB, all
\* seven fields filled and a prompt edited by hand
C15_Witness ==
    /\ stage = "in_api"
    /\ Len(run.images_to_use) = 2
    /\ run.images_to_use[1].mode = "RGBA"
    /\ run.contents[2].image.mode = "RGB"
    /\ Len(run.placeholder_values) = 7
    /\ run.final_prompt_edited = <<"hand-edited prompt">>

\* the positions of the parts of a response that decode to an image
DecodablePositions(response) == {i \in DOMAIN response : response[i] = "image"}

============================================================================
